---- MODULE Spec2Model ----
(***************************************************************************)
(* A model of tools/make-sql-inserts.py: the script that loads a word      *)
(* list, shuffles it and prints SQL insert statements whose text columns   *)
(* are built from cyclically drawn words.                                  *)
(*                                                                         *)
(* Strings are sequences of one-character strings.  Two specifications:    *)
(*   Spec       the script as it runs: main() from its first line on;      *)
(*   SpecCalls  the functions next_word and make_vchar called in any       *)
(*              order, with any max_len, after init_data_structure.        *)
(***************************************************************************)
EXTENDS Integers, Sequences, FiniteSets, TLC

VARIABLES
  dict_state,          \* whether dict_filename can be opened and read
  dict_file,           \* the lines of the file at dict_filename
  first_id_inclusive,  \* flag
  last_id_exclusive,   \* flag
  print_use_db_line,   \* flag
  words,               \* global: the word pool
  word_index,          \* global: the cursor into words
  pc,                  \* the statement control is at
  err,                 \* the uncaught exception that ended the run, or "none"
  i,                   \* main: loop variable
  part, des, seller_name, notes,   \* main: the text columns of the row
  max_len, chosen, used,           \* make_vchar: parameter and locals
  ret,                 \* make_vchar: where its value goes
  vchar,               \* the value make_vchar returned to a direct caller
  word,                \* the value next_word returned last
  output,              \* the lines printed so far
  calls,               \* history: number of next_word calls since the load
  cycle,               \* history: the words returned in the current block of len(words) calls
  shuffled             \* history: did the last next_word call run random.shuffle

flags == <<dict_state, dict_file, first_id_inclusive, last_id_exclusive, print_use_db_line>>
pool == <<words, word_index>>
locals == <<i, part, des, seller_name, notes>>
frame == <<max_len, chosen, used, ret>>
history == <<calls, cycle, shuffled>>
vars == <<flags, pool, pc, err, locals, frame, vchar, word, output, history>>

----------------------------------------------------------------------------
(* Bounds of the model *)

\* ids range over 0..MaxId
MaxId == 3
\* the widths main asks make_vchar for, scaled down from 48, 2024, 128 and 7168
PartLen == 2
DesLen == 3
SellerNameLen == 2
NotesLen == 4
\* SpecCalls: make_vchar is called with max_len in -1..MaxLen
MaxLen == 5
\* SpecCalls: no new call starts once this many words were drawn
MaxCalls == 7

----------------------------------------------------------------------------
(* Strings *)

AlnumChars == {"a", "b", "c", "d", "7"}
SpaceChars == {" ", "\n"}

\* re.sub("[^0-9a-zA-Z]", "", line)
IsAlnum(c) == c \in AlnumChars
ReSub(line) == SelectSeq(line, IsAlnum)

\* line.strip()
RECURSIVE LStrip(_)
LStrip(s) == IF s # <<>> /\ Head(s) \in SpaceChars THEN LStrip(Tail(s)) ELSE s
RECURSIVE RStrip(_)
RStrip(s) ==
  IF s # <<>> /\ s[Len(s)] \in SpaceChars THEN RStrip(SubSeq(s, 1, Len(s) - 1)) ELSE s
Strip(s) == RStrip(LStrip(s))

\* ' '.join(chosen)
RECURSIVE Join(_)
Join(ws) ==
  IF ws = <<>> THEN <<>>
  ELSE IF Len(ws) = 1 THEN ws[1]
  ELSE ws[1] \o <<" ">> \o Join(Tail(ws))

\* s[:n]
Min(a, b) == IF a < b THEN a ELSE b
Max(a, b) == IF a > b THEN a ELSE b
Slice(s, n) ==
  IF n >= 0 THEN SubSeq(s, 1, Min(n, Len(s)))
  ELSE SubSeq(s, 1, Max(0, Len(s) + n))

\* the orders random.shuffle can leave a list in
Shuffles(s) ==
  { [j \in 1..Len(s) |-> s[f[j]]] : f \in Permutations(1..Len(s)) }

----------------------------------------------------------------------------
(* The dictionary files the model reads *)

LineA == <<"a", "\n">>
LineBB == <<"b", "'", "b", "\n">>
Line7cd == <<" ", "7", "-", "c", "d", " ", "\n">>
LinePunct == <<"'", "-", "\n">>
LineBlank == <<"\n">>

DictFiles ==
  { <<>>,
    <<LinePunct, LineBlank>>,
    <<LineA>>,
    <<LineA, LinePunct, LineBB>>,
    <<LineA, LineA>> }

DictFilesCalls == DictFiles \cup { <<LineBB, LineA, Line7cd>> }

----------------------------------------------------------------------------
(* init_data_structure *)

\* lines 49-53: the words the loop appends for these lines
RECURSIVE Load(_)
Load(lines) ==
  IF lines = <<>> THEN <<>>
  ELSE LET line == Strip(ReSub(Head(lines)))
       IN  IF Len(line) > 0 THEN <<line>> \o Load(Tail(lines)) ELSE Load(Tail(lines))

\* a bug: the IOError is swallowed and the run goes on with what was read
InitDataStructureLenient(next) ==
  /\ pc = "start"
  /\ \/ /\ dict_state = "missing"
        /\ words' = words
     \/ /\ dict_state = "unreadable"
        /\ \E n \in 0..Len(dict_file) : words' = words \o Load(SubSeq(dict_file, 1, n))
     \/ /\ dict_state = "ok"
        /\ \E p \in Shuffles(words \o Load(dict_file)) : words' = p
  /\ err' = err
  /\ pc' = next
  /\ UNCHANGED <<flags, word_index, locals, frame, vchar, word, output, history>>

InitDataStructure(next) ==
  /\ pc = "start"
  /\ \/ /\ dict_state = "missing"          \* open() raises
        /\ err' = "IOError"
        /\ pc' = "aborted"
        /\ words' = words
     \/ /\ dict_state = "unreadable"       \* the read raises after some lines
        /\ \E n \in 0..Len(dict_file) : words' = words \o Load(SubSeq(dict_file, 1, n))
        /\ err' = "IOError"
        /\ pc' = "aborted"
     \/ /\ dict_state = "ok"
        /\ \E p \in Shuffles(words \o Load(dict_file)) : words' = p
        /\ err' = err
        /\ pc' = next
  /\ UNCHANGED <<flags, word_index, locals, frame, vchar, word, output, history>>

----------------------------------------------------------------------------
(* next_word *)

NextIndex(idx, n) == (idx + 1) % n
\* bugs: the shuffle one call early, and the shuffle on every call
WrappedOffByOne(idx) == 1 = idx
WrappedAlways(idx) == TRUE
Wrapped(idx) == 0 = idx

\* lines 59-65; the value returned is word'
next_word ==
  /\ words # <<>>
  /\ word' = words[word_index + 1]
  /\ LET idx == NextIndex(word_index, Len(words))
     IN  /\ word_index' = idx
         /\ IF Wrapped(idx)
              THEN /\ \E p \in Shuffles(words) : words' = p
                   /\ shuffled' = TRUE
              ELSE /\ words' = words
                   /\ shuffled' = FALSE
  /\ calls' = calls + 1
  /\ cycle' = IF Len(cycle) = Len(words) THEN <<word'>> ELSE Append(cycle, word')

\* words[word_index] on an empty list
IndexError ==
  /\ words = <<>>
  /\ err' = "IndexError"
  /\ pc' = "aborted"
  /\ UNCHANGED <<flags, pool, locals, frame, vchar, word, output, history>>

----------------------------------------------------------------------------
(* make_vchar *)

Used(u, w) == u + Len(w) + 1
\* a bug: one more word when used lands on max_len
ContinueInclusive(u, n) == u <= n
Continue(u, n) == u < n

\* lines 69-70
Enter(n, to) ==
  /\ max_len' = n
  /\ chosen' = <<>>
  /\ used' = 0
  /\ ret' = to
  /\ pc' = "vchar"

\* lines 71-74, one turn of the loop
VcharLoop ==
  /\ pc = "vchar"
  /\ Continue(used, max_len)
  /\ \/ /\ next_word
        /\ chosen' = Append(chosen, word')
        /\ used' = Used(used, word')
        /\ UNCHANGED <<flags, pc, err, locals, max_len, ret, vchar, output>>
     \/ IndexError

Truncate(s, n) == Slice(s, n)

\* lines 75-76, and the assignment of the value
VcharReturn ==
  /\ pc = "vchar"
  /\ ~Continue(used, max_len)
  /\ LET v == Truncate(Join(chosen), max_len)
     IN  /\ part' = IF ret = "part" THEN v ELSE part
         /\ des' = IF ret = "des" THEN v ELSE des
         /\ seller_name' = IF ret = "seller_name" THEN v ELSE seller_name
         /\ notes' = IF ret = "notes" THEN v ELSE notes
         /\ vchar' = IF ret = "caller" THEN v ELSE vchar
  /\ pc' = CASE ret = "part" -> "des"
             [] ret = "des" -> "seller_name"
             [] ret = "seller_name" -> "notes"
             [] ret = "notes" -> "print"
             [] OTHER -> "idle"
  /\ UNCHANGED <<flags, pool, err, i, frame, word, output, history>>

----------------------------------------------------------------------------
(* main *)

\* line 80
MainInit == InitDataStructure("use")

db_name == "sql-serv"
table_name == "Medium_Size"

\* a bug: the flag is not looked at
PrintUseAlways ==
  /\ pc = "use"
  /\ output' = Append(output, [kind |-> "use", db |-> db_name])
  /\ i' = first_id_inclusive
  /\ pc' = "loop"
  /\ UNCHANGED <<flags, pool, err, part, des, seller_name, notes, frame, vchar, word, history>>

\* lines 82-85
PrintUse ==
  /\ pc = "use"
  /\ output' = IF print_use_db_line THEN Append(output, [kind |-> "use", db |-> db_name]) ELSE output
  /\ i' = first_id_inclusive
  /\ pc' = "loop"
  /\ UNCHANGED <<flags, pool, err, part, des, seller_name, notes, frame, vchar, word, history>>

\* a bug: the last id taken as inclusive
LoopCondInclusive(k) == k <= last_id_exclusive
LoopCond(k) == k < last_id_exclusive

\* line 86
LoopTest ==
  /\ pc = "loop"
  /\ pc' = IF LoopCond(i) THEN "part" ELSE "done"
  /\ UNCHANGED <<flags, pool, err, locals, frame, vchar, word, output, history>>

Width(field) ==
  CASE field = "part" -> PartLen
    [] field = "des" -> DesLen
    [] field = "seller_name" -> SellerNameLen
    [] field = "notes" -> NotesLen

\* lines 87, 88, 90, 92: the call of make_vchar
MainCall ==
  /\ pc \in {"part", "des", "seller_name", "notes"}
  /\ Enter(Width(pc), pc)
  /\ UNCHANGED <<flags, pool, err, locals, vchar, word, output, history>>

\* bugs: stock from the row count, and a step of two
StockOfRowCount(k) == ((last_id_exclusive - first_id_inclusive) * 5) - k
NextIdSkip(k) == k + 2
Stock(k) == (last_id_exclusive * 5) - k
NextId(k) == k + 1

\* lines 89, 91, 93-97
PrintRecord ==
  /\ pc = "print"
  /\ output' = Append(output,
       [kind |-> "insert", table |-> table_name, part |-> part, description |-> des, seller_id |-> i,
        seller_name |-> seller_name, price |-> i, notes |-> notes, stock |-> Stock(i)])
  /\ i' = NextId(i)
  /\ pc' = "loop"
  /\ UNCHANGED <<flags, pool, err, part, des, seller_name, notes, frame, vchar, word, history>>

----------------------------------------------------------------------------
(* The functions called directly *)

CallsInit == InitDataStructure("idle")

CallMakeVchar ==
  /\ pc = "idle"
  /\ calls < MaxCalls
  /\ \E n \in -1..MaxLen : Enter(n, "caller")
  /\ UNCHANGED <<flags, pool, err, locals, vchar, word, output, history>>

CallNextWord ==
  /\ pc = "idle"
  /\ calls < MaxCalls
  /\ \/ /\ next_word
        /\ UNCHANGED <<flags, pc, err, locals, frame, vchar, output>>
     \/ IndexError

----------------------------------------------------------------------------
(* Specifications *)

Flags(files) ==
  /\ dict_state \in {"ok", "missing", "unreadable"}
  /\ dict_file \in files
  /\ first_id_inclusive \in 0..MaxId
  /\ last_id_exclusive \in 0..MaxId
  /\ print_use_db_line \in BOOLEAN

\* lines 43-44, and nothing run yet
Globals ==
  /\ words = <<>>
  /\ word_index = 0
  /\ pc = "start"
  /\ err = "none"
  /\ i = 0 /\ part = <<>> /\ des = <<>> /\ seller_name = <<>> /\ notes = <<>>
  /\ max_len = 0 /\ chosen = <<>> /\ used = 0 /\ ret = "none"
  /\ vchar = <<>>
  /\ word = <<>>
  /\ output = <<>>
  /\ calls = 0 /\ cycle = <<>> /\ shuffled = FALSE

Init == Flags(DictFiles) /\ Globals

Next ==
  \/ MainInit
  \/ PrintUse
  \/ LoopTest
  \/ MainCall
  \/ VcharLoop
  \/ VcharReturn
  \/ PrintRecord

Spec == Init /\ [][Next]_vars

InitCalls ==
  /\ Flags(DictFilesCalls)
  /\ dict_state = "ok"
  /\ first_id_inclusive = 0 /\ last_id_exclusive = 0 /\ print_use_db_line = FALSE
  /\ Globals

NextCalls ==
  \/ CallsInit
  \/ CallMakeVchar
  \/ CallNextWord
  \/ VcharLoop
  \/ VcharReturn

\* a call that has started runs on: the script is one sequential thread
SpecCalls == InitCalls /\ [][NextCalls]_vars /\ WF_vars(VcharLoop) /\ WF_vars(VcharReturn)

\* the script run to its end under the scheduling of one sequential thread
FairSpec == Spec /\ WF_vars(Next)

----------------------------------------------------------------------------
(* What the claims speak of *)

IsInsert(r) == r.kind = "insert"
IsUse(r) == r.kind = "use"
Inserts == SelectSeq(output, IsInsert)
UseLines == SelectSeq(output, IsUse)
RowCount == last_id_exclusive - first_id_inclusive

Count(s, w) == Cardinality({j \in 1..Len(s) : s[j] = w})
SameBag(s, t) ==
  /\ Len(s) = Len(t)
  /\ \A j \in 1..Len(s) : Count(s, s[j]) = Count(t, s[j])

\* the sum of len(word) + 1 over ws
RECURSIVE Weight(_)
Weight(ws) == IF ws = <<>> THEN 0 ELSE Len(Head(ws)) + 1 + Weight(Tail(ws))

Returned == pc = "idle" /\ ret = "caller"

----------------------------------------------------------------------------
(* Spec: the script *)

\* C1: a run that completes with a non-empty pool and n = last_id_exclusive -
\* first_id_inclusive >= 0 has printed exactly n insert statements, and exactly
\* one use line when print_use_db_line is on and none when it is off.
C1_RowCount ==
  (pc = "done" /\ words # <<>> /\ RowCount >= 0) =>
     /\ Len(Inserts) = RowCount
     /\ Len(UseLines) = IF print_use_db_line THEN 1 ELSE 0

C1_Witness ==
  pc = "done" /\ words # <<>> /\ RowCount = MaxId /\ print_use_db_line /\ Len(Inserts) = MaxId

\* C2: the use line, when printed, is the first line of the output; the insert
\* statements carry the ids first_id_inclusive, first_id_inclusive + 1, ... in
\* that order, all below last_id_exclusive, and a completed run has one for
\* every id of the range.
C2_Order ==
  /\ \A j \in 1..Len(output) : IsUse(output[j]) => j = 1
  /\ \A j \in 1..Len(Inserts) :
        /\ Inserts[j].seller_id = first_id_inclusive + j - 1
        /\ Inserts[j].seller_id < last_id_exclusive
  /\ pc = "done" => Len(Inserts) = Max(0, RowCount)

C2_Witness ==
  /\ pc = "done" /\ print_use_db_line /\ first_id_inclusive = 1
  /\ Len(output) = 3 /\ IsUse(output[1])
  /\ output[2].seller_id = 1 /\ output[3].seller_id = 2

\* C8: every insert statement printed for index i has seller_id = i and
\* stock = last_id_exclusive * 5 - i, whatever first_id_inclusive is.
C8_Stock ==
  \A j \in 1..Len(output) :
     IsInsert(output[j]) =>
        LET idx == first_id_inclusive + Len(SelectSeq(SubSeq(output, 1, j - 1), IsInsert))
        IN  /\ output[j].seller_id = idx
            /\ output[j].stock = (last_id_exclusive * 5) - idx

C8_Witness ==
  /\ first_id_inclusive = 1 /\ last_id_exclusive = 3
  /\ Len(Inserts) = 2
  /\ Inserts[2].stock = 13
  /\ Inserts[2].stock # (RowCount * 5) - Inserts[2].seller_id

\* C7: when the dictionary cannot be opened or read, the run ends in the
\* IOError of init_data_structure: nothing is ever printed, no word is drawn and
\* control goes nowhere else.
C7_NoOutputOnIOError ==
  dict_state # "ok" =>
     /\ output = <<>>
     /\ calls = 0
     /\ pc \in {"start", "aborted"}
     /\ pc = "aborted" => err = "IOError"

C7_Witness ==
  /\ pc = "aborted" /\ err = "IOError" /\ dict_state = "unreadable"
  /\ print_use_db_line /\ RowCount > 0 /\ words # <<>>

\* C5 (the claim as stated): with a readable dictionary of blank and
\* punctuation lines only, which yields no word, the run prints nothing, never
\* indexes the empty pool and does not complete normally.
C5_EmptyPoolRejected ==
  (dict_state = "ok" /\ dict_file # <<>> /\ Load(dict_file) = <<>>) =>
     /\ output = <<>>
     /\ err # "IndexError"
     /\ pc # "done"

\* C6 (the claim as stated): with last_id_exclusive <= first_id_inclusive the
\* run does not complete normally, here with a dictionary that is read and
\* yields words.
C6_EmptyRangeRejected ==
  (last_id_exclusive <= first_id_inclusive /\ dict_state = "ok" /\ Load(dict_file) # <<>>) =>
     pc # "done"

\* C6 (amended): with last_id_exclusive <= first_id_inclusive no insert
\* statement is printed and no word is drawn, and when the dictionary can be
\* read no exception is raised: control only moves from the load to the use
\* line, the loop test and the normal end.
C6_EmptyRangeCompletes ==
  last_id_exclusive <= first_id_inclusive =>
     /\ Inserts = <<>>
     /\ calls = 0
     /\ err # "IndexError"
     /\ dict_state = "ok" => (err = "none" /\ pc \in {"start", "use", "loop", "done"})

C6_Witness ==
  /\ pc = "done" /\ err = "none"
  /\ last_id_exclusive = first_id_inclusive /\ words = <<>>
  /\ print_use_db_line /\ Len(output) = 1

\* every run of the script ends
Terminates == <>(pc \in {"done", "aborted"})

----------------------------------------------------------------------------
(* SpecCalls: next_word and make_vchar *)

\* C3 (the claim as stated): make_vchar called with max_len >= 1 on a
\* non-empty pool returns exactly max_len characters.
C3_ExactLength ==
  (Returned /\ max_len >= 1 /\ words # <<>>) => Len(vchar) = max_len

\* C4: the words returned by the calls of next_word numbered j*k+1 .. (j+1)*k
\* since the load are the pool's entries, each as often as the pool holds it:
\* none more often while the block runs, all of them once it is complete.
C4_CycleExhaustsPool ==
  words # <<>> =>
     /\ Len(cycle) = IF calls = 0 THEN 0 ELSE ((calls - 1) % Len(words)) + 1
     /\ \A j \in 1..Len(cycle) : Count(cycle, cycle[j]) <= Count(words, cycle[j])
     /\ Len(cycle) = Len(words) => SameBag(cycle, words)

C4_Witness ==
  /\ Len(words) = 3 /\ calls = 6 /\ Len(cycle) = 3
  /\ cycle[1] # cycle[2] /\ cycle[2] # cycle[3] /\ cycle[1] # cycle[3]

\* C9: a call of next_word runs random.shuffle exactly when it reads the last
\* position, and then leaves the cursor at 0 and the pool with the same words;
\* any other call leaves the pool as it is and moves the cursor up by one; the
\* cursor stays in [0, k).
C9_ShuffleOnWrap ==
  [][calls' = calls + 1 =>
       /\ shuffled' = (word_index = Len(words) - 1)
       /\ shuffled' => (word_index' = 0 /\ SameBag(words', words))
       /\ ~shuffled' => (words' = words /\ word_index' = word_index + 1)
       /\ word_index' \in 0..(Len(words) - 1)
       /\ Len(words) = 1 => shuffled']_vars

C9_Witness ==
  /\ Len(words) = 3 /\ calls = 3 /\ shuffled /\ word_index = 0
  /\ cycle # words

\* C10: in make_vchar, used is the sum of len(word) + 1 over the words drawn,
\* the words drawn before the last one sum to less than max_len, the call
\* returns with used >= max_len, and with max_len <= 0 it draws nothing and
\* returns the empty string; on a non-empty pool every call returns.
C10_Inv ==
  (pc = "vchar" \/ Returned) =>
     /\ used = Weight(chosen)
     /\ chosen # <<>> => Weight(SubSeq(chosen, 1, Len(chosen) - 1)) < max_len
     /\ Returned => used >= max_len
     /\ (Returned /\ max_len <= 0) => (chosen = <<>> /\ vchar = <<>>)

C10_MinimalDraws ==
  /\ []C10_Inv
  /\ (pc = "vchar" /\ words # <<>>) ~> Returned

C10_Witness ==
  /\ Returned /\ max_len = MaxLen /\ Len(chosen) = 2 /\ used = max_len
  /\ Len(vchar) = max_len - 1

====
